---- MODULE Spec2Model ----
(***************************************************************************)
(* A model of logutils (src/src/logutils/api.py): the module-level memo    *)
(* _LOGGING_CONFIGURATION, structlog's configured flag, the logging tree    *)
(* installed by logging.config.dictConfig, the idempotence gate of          *)
(* init_logging, the lazy configuration done by Logger(), the default       *)
(* resolution of _set_log_defaults, the processor chains, and the bound     *)
(* context of BetterBoundLogger handles.                                    *)
(*                                                                         *)
(* Python values are modelled as follows: a dict is a function whose        *)
(* DOMAIN is its key set; a list or tuple is a record [kind, items]; a Log  *)
(* is a record [file, format, level] with level = None when unset.          *)
(* assert statements are active (the interpreter runs without -O).          *)
(***************************************************************************)
EXTENDS Integers, Sequences, FiniteSets, TLC

VARIABLES
    memo,         \* _LOGGING_CONFIGURATION (api.py:92)
    configured,   \* structlog.is_configured()
    installed,    \* the config last applied by logging.config.dictConfig
    last,         \* history: the last operation, its arguments and effects
    emits,        \* history: the records emitted by the last operation
    streak,       \* history: effects of the current run of identical calls
    completed,    \* history: an init_logging call completed since the reset
    lazyDefault,  \* history: Logger() applied the defaults, no reset since
    handle,       \* context of the handle returned by the last bind call
    parent,       \* context of the handle that call was made on
    dflt,         \* last evaluation of _set_log_defaults: input and result
    threads       \* the init_logging call of each thread and where it stands

vars == <<memo, configured, installed, last, emits, streak, completed,
          lazyDefault, handle, parent, dflt, threads>>

(***************************************************************************)
(* Bounds of the model.                                                    *)
(***************************************************************************)
MaxVerbose == 3     \* verbosity arguments range over -1..MaxVerbose
MaxLogs == 2        \* length of the sink lists given to _set_log_defaults
MaxStreak == 3      \* identical consecutive calls counted before saturating

(***************************************************************************)
(* Python helpers.                                                         *)
(***************************************************************************)
None == "None"

EmptyDict == [k \in {} |-> None]

\* a slip: the update is lost
DictUpdate_lost(d, e) == d

\* dict.update(e) / dict(d, **e)
DictUpdate(d, e) ==
    [k \in DOMAIN d \cup DOMAIN e |-> IF k \in DOMAIN e THEN e[k] ELSE d[k]]

\* del d[k]
DictDel(d, k) == [x \in DOMAIN d \ {k} |-> d[x]]

\* d[k] = v
DictSet(d, k, v) == [x \in DOMAIN d \cup {k} |-> IF x = k THEN v ELSE d[x]]

PyTuple(items) == [kind |-> "tuple", items |-> items]
PyList(items) == [kind |-> "list", items |-> items]

SeqsUpTo(S, n) == UNION {[1..k -> S] : k \in 0..n}

(***************************************************************************)
(* Types of the API (api.py:70-113).                                       *)
(***************************************************************************)
LogFormat == {"json", "color", "nocolor"}
LogLevel == {"TRACE", "DEBUG", "INFO", "WARNING", "ERROR", "CRITICAL"}

\* numeric severities: logging's own, plus the custom TRACE level
LevelNo(level) ==
    CASE level = "TRACE" -> 5
      [] level = "DEBUG" -> 10
      [] level = "INFO" -> 20
      [] level = "WARNING" -> 30
      [] level = "ERROR" -> 40
      [] level = "CRITICAL" -> 50

Log(file, format, level) == [file |-> file, format |-> format, level |-> level]

_DEFAULT_CONSOLE_LOG == Log("stderr", "color", None)

_RESTRICTED_KEYS ==
    {"event", "fargs", "function", "lineno", "module", "name", "pid", "thread"}

(***************************************************************************)
(* _set_log_defaults (api.py:447-501).                                     *)
(***************************************************************************)
default_console_level(verbose) ==
    IF verbose >= 3 THEN "TRACE"
    ELSE IF verbose >= 1 THEN "DEBUG"
    ELSE "INFO"

\* a slip: the console default copied to the file default
default_file_level_as_console(verbose) ==
    IF verbose >= 3 THEN "TRACE"
    ELSE IF verbose >= 1 THEN "DEBUG"
    ELSE "INFO"

default_file_level(verbose) ==
    IF verbose >= 3 THEN "TRACE"
    ELSE IF verbose >= 1 THEN "DEBUG"
    ELSE "DEBUG"

\* the test of api.py:483 and api.py:491: an exact, case-sensitive match
IsConsoleForDefaults(file) == file \in {"stdout", "stderr"}

\* one iteration of the loop of api.py:471-488
SetLogLevel(log, verbose) ==
    IF log.level # None
    THEN log
    ELSE Log(log.file, log.format,
             IF IsConsoleForDefaults(log.file)
             THEN default_console_level(verbose)
             ELSE default_file_level(verbose))

\* a slip: only 'stderr' counts as an explicit console Log
NeedsDefaultConsole_stderr_only(logs) ==
    ~ \E i \in 1..Len(logs) : logs[i].file = "stderr"

\* api.py:491: no 'stderr' or 'stdout' Log among the input logs
NeedsDefaultConsole(logs) ==
    ~ \E i \in 1..Len(logs) : IsConsoleForDefaults(logs[i].file)

\* the list returned for a list/tuple of Logs and a verbosity >= 0
_set_log_defaults(logs, verbose) ==
    LET result == [i \in 1..Len(logs) |-> SetLogLevel(logs[i], verbose)]
    IN  IF NeedsDefaultConsole(logs)
        THEN Append(result, Log(_DEFAULT_CONSOLE_LOG.file,
                                _DEFAULT_CONSOLE_LOG.format,
                                default_console_level(verbose)))
        ELSE result

(***************************************************************************)
(* Processor chains (api.py:272-303). A chain is the sequence of the       *)
(* processors' names, applied left to right by _chain_processors.          *)
(***************************************************************************)
shared_processors == <<"add_log_level">>
verbose_processors == <<"_add_pid_processor", "_add_thread_processor">>
very_verbose_processors == <<"iso_utc_timestamper", "_add_caller_info_processor">>

json_processors ==
    shared_processors \o (verbose_processors \o very_verbose_processors)

\* a slip: the console chain keeps the bound function arguments
console_processors_keeping_fargs(verbose) ==
    IF verbose >= 2
    THEN shared_processors \o (verbose_processors \o very_verbose_processors)
    ELSE shared_processors
         \o (IF verbose = 1
             THEN verbose_processors \o <<"medium_timestamper">>
             ELSE <<"_short_timestamper">>)

\* a slip: verbosity 1 is treated as verbosity 0
console_processors_ignoring_one(verbose) ==
    IF verbose >= 2
    THEN shared_processors \o (verbose_processors \o very_verbose_processors)
    ELSE (shared_processors \o <<"_remove_fargs_processor">>)
         \o <<"_short_timestamper">>

console_processors(verbose) ==
    IF verbose >= 2
    THEN shared_processors \o (verbose_processors \o very_verbose_processors)
    ELSE (shared_processors \o <<"_remove_fargs_processor">>)
         \o (IF verbose = 1
             THEN verbose_processors \o <<"medium_timestamper">>
             ELSE <<"_short_timestamper">>)

\* one processor applied to an event dict (api.py:528-614 and structlog's
\* add_log_level and TimeStamper); method is the logging method's name
ApplyProcessor(proc, method, ev) ==
    CASE proc = "add_log_level" -> DictSet(ev, "level", method)
      [] proc = "_add_pid_processor" -> DictSet(ev, "pid", "getpid()")
      [] proc = "_add_thread_processor" -> DictSet(ev, "thread", "thread-name")
      [] proc = "iso_utc_timestamper" -> DictSet(ev, "timestamp", "iso-utc")
      [] proc = "medium_timestamper" -> DictSet(ev, "timestamp", "medium-local")
      [] proc = "_short_timestamper" -> DictSet(ev, "timestamp", "short-local")
      [] proc = "_add_caller_info_processor" ->
            DictSet(DictSet(DictSet(ev, "module", "caller-module"),
                            "function", "caller-function"),
                    "lineno", "caller-lineno")
      [] proc = "_remove_fargs_processor" ->
            IF "fargs" \in DOMAIN ev THEN DictDel(ev, "fargs") ELSE ev

\* the loop of _chain_processors (api.py:519-522); the final renderer
\* prints every key of the dict it is handed, so the dict is the record
RECURSIVE RunChain(_, _, _)
RunChain(chain, method, ev) ==
    IF chain = <<>>
    THEN ev
    ELSE RunChain(Tail(chain), method, ApplyProcessor(Head(chain), method, ev))

(***************************************************************************)
(* The dictConfig dictionary built by init_logging (api.py:322-363 and     *)
(* 395-422).                                                               *)
(***************************************************************************)
\* str.lower() on the destination strings of the model
Lower(s) ==
    CASE s = "STDERR" -> "stderr"
      [] s = "STDOUT" -> "stdout"
      [] s = "Stdout" -> "stdout"
      [] OTHER -> s

\* the test of api.py:405
IsConsoleForHandlers(file) == Lower(file) \in {"stderr", "stdout"}

\* api.py:406-411
StreamHandler(log) ==
    [level |-> log.level, class |-> "logging.StreamHandler",
     formatter |-> log.format, stream |-> log.file, filename |-> None]

\* api.py:416-421
WatchedFileHandler(log) ==
    [level |-> log.level, class |-> "logging.handlers.WatchedFileHandler",
     formatter |-> log.format, stream |-> None, filename |-> log.file]

\* config before the loop: api.py:322-363 and 396
EmptyConfig(verbose) ==
    [formatters |-> [json |-> json_processors,
                     color |-> console_processors(verbose),
                     nocolor |-> console_processors(verbose)],
     handlers |-> EmptyDict,
     root |-> [handlers |-> <<>>, level |-> "TRACE", propagate |-> TRUE],
     real_logfiles |-> <<>>]

\* a slip: a destination registered before keeps its first handler
AddHandler_first_wins(config, log) ==
    IF log.file \in DOMAIN config.handlers
    THEN [config EXCEPT !.root.handlers = Append(@, log.file)]
    ELSE IF IsConsoleForHandlers(log.file)
    THEN [config EXCEPT
            !.handlers = DictSet(@, log.file, StreamHandler(log)),
            !.root.handlers = Append(@, log.file)]
    ELSE [config EXCEPT
            !.real_logfiles = Append(@, log.file),
            !.handlers = DictSet(@, log.file, WatchedFileHandler(log)),
            !.root.handlers = Append(@, log.file)]

\* one iteration of the loop of api.py:399-422
AddHandler(config, log) ==
    IF IsConsoleForHandlers(log.file)
    THEN [config EXCEPT
            !.handlers = DictSet(@, log.file, StreamHandler(log)),
            !.root.handlers = Append(@, log.file)]
    ELSE [config EXCEPT
            !.real_logfiles = Append(@, log.file),
            !.handlers = DictSet(@, log.file, WatchedFileHandler(log)),
            !.root.handlers = Append(@, log.file)]

RECURSIVE HandlerLoop(_, _)
HandlerLoop(logs, config) ==
    IF logs = <<>>
    THEN config
    ELSE HandlerLoop(Tail(logs), AddHandler(config, Head(logs)))

BuildConfig(logs, verbose) == HandlerLoop(logs, EmptyConfig(verbose))

(***************************************************************************)
(* logging.config.dictConfig (api.py:424) and the environment it meets.    *)
(***************************************************************************)
\* paths whose directory does not exist: opening them raises
UnopenablePaths == {"/nodir/x.log"}

\* the attributes ext://sys.<name> resolves to a stream
SysStreams == {"stderr", "stdout"}

\* dictConfig builds every handler of the map and raises ValueError when one
\* cannot be built: a stream that does not resolve, a file that cannot be
\* opened
HandlerBuilds(h) ==
    IF h.class = "logging.StreamHandler"
    THEN h.stream \in SysStreams
    ELSE h.filename \notin UnopenablePaths

DictConfigSucceeds(config) ==
    \A d \in DOMAIN config.handlers : HandlerBuilds(config.handlers[d])

\* the logging tree before any dictConfig: a root logger without handlers
NoConfig ==
    [applied |-> FALSE,
     formatters |-> [json |-> <<>>, color |-> <<>>, nocolor |-> <<>>],
     handlers |-> EmptyDict,
     root |-> [handlers |-> <<>>, level |-> "WARNING", propagate |-> TRUE],
     verbose |-> -1]

\* the logging tree after dictConfig(config) succeeded; verbose remembers the
\* verbosity the formatters' chains were built under
Installed(config, verbose) ==
    [applied |-> TRUE,
     formatters |-> config.formatters,
     handlers |-> config.handlers,
     root |-> config.root,
     verbose |-> verbose]

(***************************************************************************)
(* Emitting a record through the installed handlers.                       *)
(***************************************************************************)
\* the level a bound logger's method logs at
MethodLevel(method) ==
    CASE method = "trace" -> "TRACE"
      [] method = "debug" -> "DEBUG"
      [] method = "info" -> "INFO"
      [] method = "warning" -> "WARNING"
      [] method = "error" -> "ERROR"
      [] method = "critical" -> "CRITICAL"

\* Logger.addHandler keeps a handler once: the root's handlers without
\* repetitions, in order of first appearance
RECURSIVE Distinct(_)
Distinct(s) ==
    IF s = <<>>
    THEN <<>>
    ELSE LET init == Distinct(SubSeq(s, 1, Len(s) - 1))
             x == s[Len(s)]
         IN  IF \E i \in 1..Len(init) : init[i] = x THEN init ELSE Append(init, x)

\* ProcessorFormatter.format runs the formatter's chain on a copy of the
\* record's event dict: the dict the next handler sees is the original
MsgAfterFormat(msg, formatted) == msg

\* Handler.handle for each handler of the root logger, in order
RECURSIVE HandleLoop(_, _, _, _)
HandleLoop(names, inst, method, msg) ==
    IF names = <<>>
    THEN <<>>
    ELSE LET h == inst.handlers[Head(names)]
             passes == LevelNo(MethodLevel(method)) >= LevelNo(h.level)
             formatted == RunChain(inst.formatters[h.formatter], method, msg)
             rest == HandleLoop(Tail(names), inst, method,
                                IF passes THEN MsgAfterFormat(msg, formatted)
                                ELSE msg)
         IN  IF passes
             THEN <<[handler |-> Head(names), formatter |-> h.formatter,
                     fields |-> formatted]>> \o rest
             ELSE rest

\* a record emitted by a bound logger: the event dict structlog hands to
\* logging (context, keyword arguments, event, logger name) and what each
\* handler rendered
Emit(inst, method, ev) ==
    [method |-> method,
     event |-> ev,
     out |-> IF inst.applied /\ LevelNo(MethodLevel(method)) >= LevelNo(inst.root.level)
             THEN HandleLoop(Distinct(inst.root.handlers), inst, method, ev)
             ELSE <<>>]

(***************************************************************************)
(* init_logging (api.py:221-430) and Logger (api.py:185-218) as functions  *)
(* of the state they read (m: the memo, c: structlog's flag, inst: the     *)
(* logging tree) to the state they leave and what they did.                *)
(***************************************************************************)
\* the name Logger() derives from the calling script (api.py:205-206)
ScriptName == "scriptname"

\* a slip: the assertion is missing
VerboseAssertion_missing(verbose) == TRUE

\* api.py:261
VerboseAssertion(verbose) == verbose >= 0

\* a slip: the test of structlog's flag is inverted
IdempotenceGate_inverted_flag(m, func_args, c) == m = func_args /\ ~c

\* a slip: any earlier configuration closes the gate, whatever its arguments
IdempotenceGate_any_configuration(m, func_args, c) == DOMAIN m # {} /\ c

\* api.py:264
IdempotenceGate(m, func_args, c) == m = func_args /\ c

\* api.py:209
\* a slip: the handle is configured afresh on every call
LoggerGate_always(m, c) == TRUE

LoggerGate(m, c) == DOMAIN m = {} \/ ~c

\* api.py:429-430: Logger().bind_fargs(func_args).info("Logging to files.",
\* logfiles=real_logfiles), emitted through the tree dictConfig just installed
LoggingToFiles(inst, func_args, real_logfiles) ==
    Emit(inst, "info",
         [fargs |-> func_args, logfiles |-> real_logfiles,
          event |-> "Logging to files.", logger |-> ScriptName])

\* api.py:399-402: the assertion made on every resolved Log
LevelsAreSet(logs) == \A i \in 1..Len(logs) : logs[i].level # None

init_logging(m, c, inst, logs, verbose) ==
    LET func_args == [logs |-> logs, verbose |-> verbose]
        untouched == [memo |-> m, configured |-> c, installed |-> inst,
                      proceeded |-> FALSE, resets |-> 0, dictConfigs |-> 0,
                      infoLines |-> 0, records |-> <<>>, reentered |-> FALSE]
    IN  IF ~VerboseAssertion(verbose)
        THEN \* api.py:261
             untouched @@ [outcome |-> "AssertionError"]
        ELSE IF IdempotenceGate(m, func_args, c)
        THEN \* api.py:265
             untouched @@ [outcome |-> "return"]
        ELSE LET m1 == DictUpdate(m, func_args)                       \* 267
                 resolved == _set_log_defaults(logs.items, verbose)   \* 270
                 config == BuildConfig(resolved, verbose)             \* 322-422
                 c1 == TRUE       \* reset_defaults (268), then configure (387)
                 levels == LevelsAreSet(resolved)                     \* 402
                 ok == levels /\ DictConfigSucceeds(config)           \* 424
                 inst1 == IF ok THEN Installed(config, verbose) ELSE inst
                 files == ok /\ config.real_logfiles # <<>>           \* 426
             IN  [memo |-> m1, configured |-> c1, installed |-> inst1,
                  proceeded |-> TRUE, resets |-> 1, dictConfigs |-> 1,
                  infoLines |-> IF files THEN 1 ELSE 0,
                  records |-> IF files
                              THEN <<LoggingToFiles(inst1, func_args,
                                                    config.real_logfiles)>>
                              ELSE <<>>,
                  reentered |-> files /\ LoggerGate(m1, c1),          \* 429
                  outcome |-> IF ok THEN "ok"
                              ELSE IF levels THEN "ValueError"
                              ELSE "AssertionError"]

\* the arguments of init_logging() (api.py:223-224)
DefaultLogs == PyTuple(<<_DEFAULT_CONSOLE_LOG>>)
DefaultVerbose == 0

\* api.py:208-212: what Logger() does before it hands out the handle
Logger(m, c, inst) ==
    IF LoggerGate(m, c)
    THEN init_logging(m, c, inst, DefaultLogs, DefaultVerbose) @@ [inits |-> 1]
    ELSE [memo |-> m, configured |-> c, installed |-> inst,
          proceeded |-> FALSE, resets |-> 0, dictConfigs |-> 0,
          infoLines |-> 0, records |-> <<>>, reentered |-> FALSE,
          outcome |-> None, inits |-> 0]

(***************************************************************************)
(* BetterBoundLogger.bind and bind_fargs (api.py:124-156). Keyword         *)
(* arguments are a sequence of <<key, value>> pairs with distinct keys, in  *)
(* the order of the call; a context is a dict.                             *)
(***************************************************************************)
KwKeys(kwargs) == {kwargs[i][1] : i \in 1..Len(kwargs)}

\* dict(**kwargs)
KwDict(kwargs) ==
    [k \in KwKeys(kwargs) |->
        kwargs[CHOOSE i \in 1..Len(kwargs) : kwargs[i][1] = k][2]]

IsRestricted(pair) == pair[1] \in _RESTRICTED_KEYS
IsNotRestricted(pair) == pair[1] \notin _RESTRICTED_KEYS

\* api.py:128-130: the keys a warning is logged for, in the order of the call
BindWarned(new_values) == SelectSeq(new_values, IsRestricted)

\* a slip: the warning is logged and the key is bound all the same
BindKept_without_del(new_values) == new_values

\* api.py:128-131: new_values once the restricted keys are deleted
BindKept(new_values) == SelectSeq(new_values, IsNotRestricted)

\* api.py:130
RestrictedKeyWarning(inst, pair) ==
    Emit(inst, "warning",
         [fargs |-> "locals()", bad_key |-> pair[1],
          event |-> "Restricted key cannot be bound.", logger |-> ScriptName])

\* bind(**new_values) on a handle of context ctx: the Logger() call of
\* api.py:126, the warnings, and structlog's bind, which builds a new handle
\* around a copy of the context updated with the values kept
bind(m, c, inst, ctx, new_values) ==
    LET r == Logger(m, c, inst)
        bad == BindWarned(new_values)
        warnings == [i \in 1..Len(bad) |-> RestrictedKeyWarning(r.installed, bad[i])]
    IN  [r EXCEPT !.records = @ \o warnings]
        @@ [self |-> ctx,
            result |-> DictUpdate(ctx, KwDict(BindKept(new_values)))]

\* a slip: the new function arguments are merged into the bound ones
bind_fargs_merging(ctx, fargs_map, kwargs) ==
    LET old == IF "fargs" \in DOMAIN ctx THEN ctx.fargs ELSE EmptyDict
        fargs == IF fargs_map.given THEN DictUpdate(old, fargs_map.map) ELSE old
    IN  [self |-> ctx,
         result |-> DictSet(ctx, "fargs", DictUpdate(fargs, KwDict(kwargs)))]

\* bind_fargs(fargs_map, **kwargs) on a handle of context ctx (api.py:150-156)
bind_fargs(ctx, fargs_map, kwargs) ==
    LET fargs == IF fargs_map.given THEN fargs_map.map ELSE EmptyDict
    IN  [self |-> ctx,
         result |-> DictSet(ctx, "fargs", DictUpdate(fargs, KwDict(kwargs)))]

\* Logger(name, **kwargs) as a whole (api.py:205-218): structlog's lazy proxy
\* hands out the handle as it is when kwargs is empty and calls bind otherwise
LoggerWith(m, c, inst, kwargs) ==
    LET r == Logger(m, c, inst)
    IN  IF kwargs = <<>>
        THEN r @@ [self |-> EmptyDict, result |-> EmptyDict]
        ELSE LET b == bind(r.memo, r.configured, r.installed, EmptyDict, kwargs)
             IN  [b EXCEPT !.records = r.records \o @,
                           !.inits = r.inits + @,
                           !.resets = r.resets + @,
                           !.dictConfigs = r.dictConfigs + @,
                           !.infoLines = r.infoLines + @,
                           !.proceeded = r.proceeded \/ @,
                           !.outcome = IF r.inits = 1 THEN r.outcome ELSE @]

(***************************************************************************)
(* The calls the configuration specification makes.                        *)
(***************************************************************************)
\* the sink lists handed to init_logging: the default, the lists of the
\* tests, a file first, a file in a missing directory, two files alone, an
\* upper-case console name, one destination twice
CallLogs ==
    { DefaultLogs,
      PyList(<<Log("stderr", "nocolor", "INFO"), Log("app.log", "json", "DEBUG")>>),
      PyList(<<Log("app.log", "json", None), Log("stdout", "nocolor", None)>>),
      PyList(<<Log("/nodir/x.log", "json", None)>>),
      PyList(<<Log("b.log", "color", None), Log("app.log", "json", None)>>),
      PyList(<<Log("STDERR", "nocolor", None)>>),
      PyList(<<Log("stderr", "json", "ERROR"), Log("stderr", "color", None)>>) }

Verbosities == -1..MaxVerbose

\* the bound function arguments and the methods of the records logged
LogFargs == {None, "bound"}
LogMethods == {"debug", "error"}

NoStreak == [active |-> FALSE, logs |-> PyTuple(<<>>), verbose |-> 0,
             calls |-> 0, dictConfigs |-> 0, infoLines |-> 0, ok |-> FALSE]

NoCall == [op |-> "start", logs |-> PyTuple(<<>>), verbose |-> 0,
           outcome |-> None, proceeded |-> FALSE, resets |-> 0,
           dictConfigs |-> 0, infoLines |-> 0, inits |-> 0,
           reentered |-> FALSE, wasCompleted |-> FALSE,
           wasVerbose |-> -1, kwargs |-> <<>>,
           fargs_map |-> [given |-> FALSE, map |-> EmptyDict],
           self |-> EmptyDict]

Min(a, b) == IF a <= b THEN a ELSE b

\* the run of consecutive init_logging calls with the arguments of the last
\* call that passed the gate: how many calls, and what they did in total
NextStreak(s, logs, verbose, r) ==
    IF r.outcome = "AssertionError"
    THEN s
    ELSE IF s.active /\ s.logs = logs /\ s.verbose = verbose
    THEN [s EXCEPT !.calls = Min(@ + 1, MaxStreak),
                   !.dictConfigs = Min(@ + r.dictConfigs, MaxStreak),
                   !.infoLines = Min(@ + r.infoLines, MaxStreak)]
    ELSE [active |-> TRUE, logs |-> logs, verbose |-> verbose, calls |-> 1,
          dictConfigs |-> r.dictConfigs, infoLines |-> r.infoLines,
          ok |-> r.outcome = "ok"]

\* the threads that may call init_logging, and a thread that made no call
Threads == {1, 2}

NoThreads ==
    [t \in Threads |->
        [pc |-> "idle", logs |-> PyTuple(<<>>), verbose |-> 0,
         overlapped |-> FALSE, outcome |-> None]]

NoDefaults == [logs |-> <<>>, verbose |-> 0, done |-> FALSE, raised |-> FALSE,
               result |-> <<>>, levels |-> FALSE, handlers |-> EmptyDict]

Init ==
    /\ memo = EmptyDict
    /\ configured = FALSE
    /\ installed = NoConfig
    /\ last = NoCall
    /\ emits = <<>>
    /\ streak = NoStreak
    /\ completed = FALSE
    /\ lazyDefault = FALSE
    /\ handle = EmptyDict
    /\ parent = EmptyDict
    /\ dflt = NoDefaults
    /\ threads = NoThreads

\* init_logging(logs=logs, verbose=verbose), called by the application
InitLoggingCall ==
    \E logs \in CallLogs, verbose \in Verbosities :
        \E r \in {init_logging(memo, configured, installed, logs, verbose)} :
            /\ memo' = r.memo
            /\ configured' = r.configured
            /\ installed' = r.installed
            /\ emits' = r.records
            /\ last' = [NoCall EXCEPT !.op = "init_logging", !.logs = logs,
                           !.verbose = verbose, !.outcome = r.outcome,
                           !.proceeded = r.proceeded, !.resets = r.resets,
                           !.dictConfigs = r.dictConfigs,
                           !.infoLines = r.infoLines,
                           !.reentered = r.reentered,
                           !.wasCompleted = completed,
                           !.wasVerbose = installed.verbose]
            /\ streak' = NextStreak(streak, logs, verbose, r)
            /\ completed' = (completed \/ r.outcome \in {"ok", "return"})
            /\ UNCHANGED <<lazyDefault, handle, parent, dflt, threads>>

\* the state a call of Logger() leaves, whatever it was called for
LoggerState(r) ==
    /\ memo' = r.memo
    /\ configured' = r.configured
    /\ installed' = r.installed
    /\ streak' = IF r.inits = 1
                 THEN NextStreak(streak, DefaultLogs, DefaultVerbose, r)
                 ELSE streak
    /\ completed' = (completed \/ (r.inits = 1 /\ r.outcome \in {"ok", "return"}))
    /\ lazyDefault' = (lazyDefault \/ (r.inits = 1 /\ r.outcome = "ok"))

\* what an operation that called Logger() did
LastOf(r, op) ==
    [NoCall EXCEPT !.op = op,
        !.logs = IF r.inits = 1 THEN DefaultLogs ELSE @,
        !.verbose = IF r.inits = 1 THEN DefaultVerbose ELSE @,
        !.outcome = r.outcome, !.proceeded = r.proceeded,
        !.resets = r.resets, !.dictConfigs = r.dictConfigs,
        !.infoLines = r.infoLines,
        !.inits = r.inits, !.reentered = r.reentered,
        !.wasCompleted = completed, !.wasVerbose = installed.verbose]

\* Logger(name), with no keyword arguments
LoggerCall ==
    \E r \in {Logger(memo, configured, installed)} :
        /\ LoggerState(r)
        /\ last' = LastOf(r, "Logger")
        /\ emits' = r.records
        /\ UNCHANGED <<handle, parent, dflt, threads>>

\* Logger(name).method("event") and Logger(name).bind_fargs(...).method("event"),
\* as in _log_stuff of the tests
LogCall ==
    \E fargs \in LogFargs, method \in LogMethods :
        \E r \in {Logger(memo, configured, installed)} :
        LET ctx == IF fargs = None THEN EmptyDict ELSE [fargs |-> fargs]
            ev == DictUpdate(ctx, [event |-> "event", logger |-> ScriptName])
        IN  /\ LoggerState(r)
            /\ last' = LastOf(r, "log")
            /\ emits' = Append(r.records, Emit(r.installed, method, ev))
            /\ UNCHANGED <<handle, parent, dflt, threads>>

\* structlog.reset_defaults(), called from outside as the tests do
ResetDefaults ==
    /\ configured' = FALSE
    /\ completed' = FALSE
    /\ lazyDefault' = FALSE
    /\ streak' = NoStreak
    /\ last' = [NoCall EXCEPT !.op = "reset_defaults", !.wasCompleted = completed,
                                !.wasVerbose = installed.verbose]
    /\ emits' = <<>>
    /\ UNCHANGED <<memo, installed, handle, parent, dflt, threads>>

Next ==
    \/ InitLoggingCall
    \/ LoggerCall
    \/ LogCall
    \/ ResetDefaults

Spec == Init /\ [][Next]_vars

(***************************************************************************)
(* _set_log_defaults on its own: the specification draws a sink list and a *)
(* verbosity and applies the function to them.                             *)
(***************************************************************************)
DefaultsFiles == {"stderr", "stdout", "STDERR", "Stdout", "app.log"}
DefaultsFormats == LogFormat
DefaultsLevels == {None, "TRACE", "WARNING"}

DefaultsLogs ==
    {Log(f, fmt, lv) : f \in DefaultsFiles, fmt \in DefaultsFormats,
                       lv \in DefaultsLevels}

InitDefaults ==
    /\ memo = EmptyDict
    /\ configured = FALSE
    /\ installed = NoConfig
    /\ last = NoCall
    /\ emits = <<>>
    /\ streak = NoStreak
    /\ completed = FALSE
    /\ lazyDefault = FALSE
    /\ handle = EmptyDict
    /\ parent = EmptyDict
    /\ threads = NoThreads
    /\ \E logs \in SeqsUpTo(DefaultsLogs, MaxLogs), verbose \in Verbosities :
          dflt = [NoDefaults EXCEPT !.logs = logs, !.verbose = verbose]

\* _set_log_defaults(logs, verbose): a verbosity below 0 meets the assertion
\* of api.py:467; the result is then checked as the loop of init_logging does
\* and handed to that loop, which builds the handler map from it
SetLogDefaultsCall ==
    /\ ~dflt.done
    /\ IF dflt.verbose >= 0
       THEN \E result \in {_set_log_defaults(dflt.logs, dflt.verbose)} :
               dflt' = [dflt EXCEPT !.done = TRUE, !.result = result,
                                    !.levels = LevelsAreSet(result),
                                    !.handlers =
                                        BuildConfig(result, dflt.verbose).handlers]
       ELSE dflt' = [dflt EXCEPT !.done = TRUE, !.raised = TRUE]
    /\ last' = [NoCall EXCEPT !.op = "_set_log_defaults"]
    /\ UNCHANGED <<memo, configured, installed, emits, streak, completed,
                   lazyDefault, handle, parent, threads>>

NextDefaults == SetLogDefaultsCall

SpecDefaults == InitDefaults /\ [][NextDefaults]_vars

(***************************************************************************)
(* Properties of _set_log_defaults, checked under SpecDefaults.            *)
(***************************************************************************)
\* the default levels as the documentation of the verbosity states them
ExpectedConsoleLevel(verbose) ==
    CASE verbose = 0 -> "INFO"
      [] verbose \in {1, 2} -> "DEBUG"
      [] verbose >= 3 -> "TRACE"

ExpectedFileLevel(verbose) ==
    CASE verbose \in {0, 1, 2} -> "DEBUG"
      [] verbose >= 3 -> "TRACE"

HasConsoleSink(logs) ==
    \E i \in 1..Len(logs) : logs[i].file = "stderr" \/ logs[i].file = "stdout"

\* C2: for every verbosity >= 0 and every sink list, _set_log_defaults
\* appends a console sink if and only if no input sink has destination
\* 'stderr' or 'stdout'; the appended sink is one sink, the last, with
\* destination 'stderr', format 'color' and the default console level of the
\* verbosity; otherwise the result is as long as the input.
C2_SyntheticConsoleSink ==
    (dflt.done /\ ~dflt.raised) =>
        IF HasConsoleSink(dflt.logs)
        THEN Len(dflt.result) = Len(dflt.logs)
        ELSE /\ Len(dflt.result) = Len(dflt.logs) + 1
             /\ dflt.result[Len(dflt.result)] =
                    [file |-> "stderr", format |-> "color",
                     level |-> ExpectedConsoleLevel(dflt.verbose)]

\* a list of two sinks, none of them 'stderr' or 'stdout' (one of them the
\* upper-case 'STDERR'), has been resolved at verbosity 3
C2_Witness ==
    /\ dflt.done /\ ~dflt.raised /\ dflt.verbose = 3
    /\ Len(dflt.logs) = 2 /\ ~HasConsoleSink(dflt.logs)
    /\ dflt.logs[1].file = "STDERR"
    /\ Len(dflt.result) = 3

\* C3: for every verbosity >= 0 and every sink list, the result holds at each
\* input position a sink with the input's destination and format; a sink
\* whose level was set is passed through unchanged, an unset level becomes
\* the default (TRACE at verbosity >= 3, DEBUG at 1 and 2; at 0 INFO for
\* 'stdout'/'stderr' and DEBUG for any other destination); no sink of the
\* result has an unset level, so the assertion of init_logging's loop holds.
C3_LevelsResolved ==
    (dflt.done /\ ~dflt.raised) =>
        /\ Len(dflt.result) >= Len(dflt.logs)
        /\ \A i \in 1..Len(dflt.logs) :
              LET in == dflt.logs[i]
                  out == dflt.result[i]
              IN  /\ out.file = in.file
                  /\ out.format = in.format
                  /\ in.level # None => out = in
                  /\ in.level = None =>
                        out.level = IF in.file \in {"stdout", "stderr"}
                                    THEN ExpectedConsoleLevel(dflt.verbose)
                                    ELSE ExpectedFileLevel(dflt.verbose)
        /\ \A j \in 1..Len(dflt.result) : dflt.result[j].level \in LogLevel
        /\ dflt.levels

\* at verbosity 0 a file sink and a console sink, both without a level, have
\* been resolved
C3_Witness ==
    /\ dflt.done /\ ~dflt.raised /\ dflt.verbose = 0
    /\ Len(dflt.logs) = 2
    /\ dflt.logs[1] = [file |-> "app.log", format |-> "json", level |-> None]
    /\ dflt.logs[2] = [file |-> "stdout", format |-> "nocolor", level |-> None]
    /\ dflt.result[1].level = "DEBUG"
    /\ dflt.result[2].level = "INFO"

(***************************************************************************)
(* The handle specification: bind, bind_fargs and Logger(name, **kwargs)   *)
(* called in any order, each on the handle the previous call returned.     *)
(***************************************************************************)
MaxKw == 2          \* keyword arguments of one bind call
MaxFargKw == 1      \* keyword arguments of one bind_fargs call

\* the keys bound: the restricted ones and an ordinary one; a restricted
\* key's value is never read, an ordinary key takes two values
BindKeyOrder ==
    <<"event", "fargs", "function", "lineno", "module", "name", "pid",
      "thread", "x">>
BindVals == [k \in {BindKeyOrder[i] : i \in 1..Len(BindKeyOrder)} |->
                IF k \in _RESTRICTED_KEYS THEN {1} ELSE {1, 2}]

FargKeyOrder == <<"a", "b">>
FargVals == [k \in {"a", "b"} |-> {2}]

\* the keyword arguments of at most n pairs over the keys ks, in their order
RECURSIVE KwSeqs(_, _, _)
KwSeqs(ks, n, vals) ==
    IF ks = <<>> \/ n = 0
    THEN {<<>>}
    ELSE KwSeqs(Tail(ks), n, vals)
         \cup {<<<<Head(ks), v>>>> \o rest :
                  v \in vals[Head(ks)], rest \in KwSeqs(Tail(ks), n - 1, vals)}

BindKwargs == KwSeqs(BindKeyOrder, MaxKw, BindVals)
FargKwargs == KwSeqs(FargKeyOrder, MaxFargKw, FargVals)

\* the fargs_map argument: left out, or a mapping over some of the keys,
\* whose values differ from those the keyword arguments give
FargMaps ==
    {[given |-> FALSE, map |-> EmptyDict]}
    \cup {[given |-> TRUE, map |-> f] :
             f \in UNION {[K -> {1}] : K \in SUBSET {"a", "b"}}}

\* handle.bind(**kwargs)
BindCall ==
    \E kwargs \in BindKwargs :
        \E r \in {bind(memo, configured, installed, handle, kwargs)} :
            /\ LoggerState(r)
            /\ last' = [LastOf(r, "bind") EXCEPT !.kwargs = kwargs, !.self = handle]
            /\ emits' = r.records
            /\ parent' = r.self
            /\ handle' = r.result
            /\ UNCHANGED <<dflt, threads>>

\* handle.bind_fargs(fargs_map, **kwargs)
BindFargsCall ==
    \E fargs_map \in FargMaps, kwargs \in FargKwargs :
        \E r \in {bind_fargs(handle, fargs_map, kwargs)} :
            /\ last' = [NoCall EXCEPT !.op = "bind_fargs", !.kwargs = kwargs,
                           !.fargs_map = fargs_map, !.self = handle,
                           !.wasCompleted = completed,
                           !.wasVerbose = installed.verbose]
            /\ emits' = <<>>
            /\ parent' = r.self
            /\ handle' = r.result
            /\ UNCHANGED <<memo, configured, installed, streak, completed,
                           lazyDefault, dflt, threads>>

\* the keyword arguments Logger is called with: none, and a restricted key
\* beside an ordinary one as in test_restricted_keys
LoggerKwargs == {<<>>, <<<<"pid", 1>>, <<"x", 1>>>>}

\* Logger(name, **kwargs): a fresh handle
LoggerWithCall ==
    \E kwargs \in LoggerKwargs :
        \E r \in {LoggerWith(memo, configured, installed, kwargs)} :
            /\ LoggerState(r)
            /\ last' = [LastOf(r, "Logger") EXCEPT !.kwargs = kwargs]
            /\ emits' = r.records
            /\ parent' = r.self
            /\ handle' = r.result
            /\ UNCHANGED <<dflt, threads>>

NextBind ==
    \/ BindCall
    \/ BindFargsCall
    \/ LoggerWithCall

SpecBind == Init /\ [][NextBind]_vars

\* what _set_log_defaults shows of how it classified input i: a sink list
\* that got the synthetic sink had no sink counted as console, and at
\* verbosity 0 an unset level is resolved to the file default
TreatedAsFile(i) ==
    \/ Len(dflt.result) > Len(dflt.logs)
    \/ /\ dflt.logs[i].level = None /\ dflt.verbose = 0
       /\ dflt.result[i].level = "DEBUG"

\* C13: every sink that _set_log_defaults treated as a file gets a
\* watched-file handler from the handler loop, and every sink that gets a
\* stream handler was treated as console by _set_log_defaults, whatever the
\* case of the destination string.
C13_SameClassification ==
    (dflt.done /\ ~dflt.raised) =>
        \A i \in 1..Len(dflt.logs) :
            LET h == dflt.handlers[dflt.logs[i].file]
            IN  /\ TreatedAsFile(i)
                      => h.class = "logging.handlers.WatchedFileHandler"
                /\ h.class = "logging.StreamHandler"
                      => IsConsoleForDefaults(dflt.logs[i].file)

(***************************************************************************)
(* Properties of the configuration, checked under Spec.                    *)
(***************************************************************************)
\* the step is a call of init_logging by the application
IsInitLoggingStep == last'.op = "init_logging"

\* some sink of the list is neither of the console streams
NamesFile(logs) ==
    \E i \in 1..Len(logs.items) :
        logs.items[i].file \notin {"stderr", "stdout", "STDERR", "STDOUT"}

\* C1: an init_logging call whose (logs, verbose) equal those of the last
\* call that passed the gate, made while structlog is still configured, is a
\* no-op: no reset, no dictConfig, no 'Logging to files.' record, and the
\* memo, the flag and the installed handlers stay as they were; over the run
\* of identical calls dictConfig ran once and the record was emitted once
\* (when the first call named a file and completed) or never.
C1_RepeatIsNoOp ==
    [][(/\ IsInitLoggingStep
        /\ streak.active /\ configured
        /\ last'.logs = streak.logs /\ last'.verbose = streak.verbose)
       => /\ last'.outcome = "return" /\ ~last'.proceeded
          /\ last'.resets = 0 /\ last'.dictConfigs = 0 /\ last'.infoLines = 0
          /\ emits' = <<>>
          /\ memo' = memo /\ configured' = configured /\ installed' = installed
          /\ streak'.dictConfigs = 1
          /\ streak'.infoLines = IF streak.ok /\ NamesFile(streak.logs)
                                 THEN 1 ELSE 0]_vars

\* a call naming a file completed and was repeated with the same arguments
C1_Witness ==
    /\ last.op = "init_logging" /\ last.outcome = "return"
    /\ NamesFile(last.logs)
    /\ streak.calls >= 2 /\ streak.ok
    /\ streak.dictConfigs = 1 /\ streak.infoLines = 1

\* C4: Logger() called when no init_logging call has completed since the
\* last reset of structlog (none made, every one raised, or structlog
\* reset) calls init_logging once, with the default arguments; called when
\* one has completed it does not call init_logging.
C4_LoggerConfiguresWhenUnconfigured ==
    last.op \in {"Logger", "log"} =>
        IF last.wasCompleted
        THEN last.inits = 0
        ELSE /\ last.inits = 1
             /\ last.logs = [kind |-> "tuple",
                             items |-> <<[file |-> "stderr", format |-> "color",
                                          level |-> None]>>]
             /\ last.verbose = 0

\* the installed handlers are those the default arguments resolve to
DefaultsInstalled ==
    /\ installed.applied
    /\ installed.root.handlers = <<"stderr">>
    /\ DOMAIN installed.handlers = {"stderr"}
    /\ installed.handlers["stderr"].level = "INFO"
    /\ installed.handlers["stderr"].formatter = "color"
    /\ installed.handlers["stderr"].class = "logging.StreamHandler"
    /\ installed.formatters.color =
          <<"add_log_level", "_remove_fargs_processor", "_short_timestamper">>

\* C5 as stated: once Logger() has applied the defaults, and until structlog
\* is reset, the installed handlers stay the default ones whatever
\* init_logging is called with.
C5_DefaultsStay == lazyDefault => DefaultsInstalled

\* the destinations the handlers of a call are registered under, in order
ExpectedRootHandlers(logs) ==
    LET files == [i \in 1..Len(logs.items) |-> logs.items[i].file]
    IN  IF \E i \in 1..Len(files) : files[i] \in {"stderr", "stdout"}
        THEN files
        ELSE Append(files, "stderr")

\* C5 as amended: after Logger() has applied the defaults, an init_logging
\* call with a verbosity >= 0 and arguments other than the memoised ones
\* passes the gate without any reset and memoises its arguments; when it
\* completes, the installed handlers are those of its own sinks and
\* verbosity.
C5_LaterCallReconfigures ==
    [][(/\ IsInitLoggingStep
        /\ lazyDefault
        /\ last'.verbose >= 0
        /\ memo # [logs |-> last'.logs, verbose |-> last'.verbose])
       => /\ last'.proceeded
          /\ memo' = [logs |-> last'.logs, verbose |-> last'.verbose]
          /\ last'.outcome \in {"ok", "ValueError"}
          /\ last'.outcome = "ok" =>
                /\ installed'.applied
                /\ installed'.verbose = last'.verbose
                /\ installed'.root.handlers = ExpectedRootHandlers(last'.logs)
                /\ \A i \in 1..Len(last'.logs.items) :
                      LET log == last'.logs.items[i]
                          h == installed'.handlers[log.file]
                      IN  (\A j \in (i + 1)..Len(last'.logs.items) :
                              last'.logs.items[j].file # log.file)
                          => /\ h.formatter = log.format
                             /\ log.level # None => h.level = log.level]_vars

\* after Logger() applied the defaults, a call with two sinks at verbosity 2
\* completed and the root logger has its two handlers
C5_Witness ==
    /\ lazyDefault
    /\ last.op = "init_logging" /\ last.outcome = "ok" /\ last.verbose = 2
    /\ installed.root.handlers = <<"stderr", "app.log">>
    /\ installed.handlers["stderr"].formatter = "nocolor"

IsConsoleFormatter(f) == f \in {"color", "nocolor"}

\* C8: under a configuration of verbosity 0 or 1 no record rendered by the
\* color or nocolor formatter has a fargs field, while a record with bound
\* fargs rendered by the json formatter has them, whichever handler comes
\* first; under verbosity >= 2 the console formatters keep the bound fargs.
C8_ConsoleDropsFargs ==
    \A i \in 1..Len(emits) :
        \A j \in 1..Len(emits[i].out) :
            LET ev == emits[i].event
                o == emits[i].out[j]
                bound == "fargs" \in DOMAIN ev
            IN  /\ (IsConsoleFormatter(o.formatter) /\ installed.verbose \in {0, 1})
                      => "fargs" \notin DOMAIN o.fields
                /\ (bound /\ o.formatter = "json")
                      => /\ "fargs" \in DOMAIN o.fields
                         /\ o.fields["fargs"] = ev["fargs"]
                /\ (bound /\ IsConsoleFormatter(o.formatter) /\ installed.verbose >= 2)
                      => /\ "fargs" \in DOMAIN o.fields
                         /\ o.fields["fargs"] = ev["fargs"]

\* at verbosity 0 a record with bound fargs went to a console handler and
\* then to a json handler, which rendered the fargs
C8_Witness ==
    /\ installed.verbose = 0
    /\ \E i \in 1..Len(emits) :
          /\ emits[i].method = "error"
          /\ "fargs" \in DOMAIN emits[i].event
          /\ Len(emits[i].out) = 2
          /\ emits[i].out[1].formatter = "nocolor"
          /\ "fargs" \notin DOMAIN emits[i].out[1].fields
          /\ emits[i].out[2].formatter = "json"
          /\ "fargs" \in DOMAIN emits[i].out[2].fields

JsonChain ==
    <<"add_log_level", "_add_pid_processor", "_add_thread_processor",
      "iso_utc_timestamper", "_add_caller_info_processor">>

ConsoleChain(verbose) ==
    CASE verbose >= 2 -> JsonChain
      [] verbose = 1 ->
            <<"add_log_level", "_remove_fargs_processor", "_add_pid_processor",
              "_add_thread_processor", "medium_timestamper">>
      [] verbose = 0 ->
            <<"add_log_level", "_remove_fargs_processor", "_short_timestamper">>

CallSite == {"module", "function", "lineno"}

\* C9: the chains installed by a configuration run are those of its
\* verbosity, whatever was installed before: the json chain is level, pid,
\* thread, ISO-UTC timestamp, call site; the console chain is the json chain
\* at verbosity >= 2, level, pid, thread and a medium local timestamp without
\* call site at 1, level and a short local timestamp at 0; and the records
\* rendered carry the fields of their chain.
C9_ChainsFollowVerbosity ==
    /\ installed.applied =>
          /\ installed.formatters.json = JsonChain
          /\ installed.formatters.color = ConsoleChain(installed.verbose)
          /\ installed.formatters.nocolor = ConsoleChain(installed.verbose)
    /\ (last.op = "init_logging" /\ last.outcome = "ok") =>
          installed.verbose = last.verbose
    /\ \A i \in 1..Len(emits) :
          \A j \in 1..Len(emits[i].out) :
              LET o == emits[i].out[j]
                  keys == DOMAIN o.fields
                  v == installed.verbose
              IN  /\ "level" \in keys /\ "timestamp" \in keys
                  /\ (o.formatter = "json" \/ v >= 2) =>
                        /\ {"pid", "thread"} \cup CallSite \subseteq keys
                        /\ o.fields["timestamp"] = "iso-utc"
                  /\ (IsConsoleFormatter(o.formatter) /\ v = 1) =>
                        /\ {"pid", "thread"} \subseteq keys
                        /\ keys \cap CallSite = {}
                        /\ o.fields["timestamp"] = "medium-local"
                  /\ (IsConsoleFormatter(o.formatter) /\ v = 0) =>
                        /\ keys \cap ({"pid", "thread"} \cup CallSite) = {}
                        /\ o.fields["timestamp"] = "short-local"

\* a run at verbosity 1 replaced a configuration of verbosity 2
C9_Witness ==
    /\ last.op = "init_logging" /\ last.outcome = "ok"
    /\ last.wasVerbose = 2 /\ last.verbose = 1
    /\ installed.formatters.color = ConsoleChain(1)

\* C10: init_logging called with a negative verbosity raises and leaves the
\* memo, structlog's flag and the installed handlers as they were; it emits
\* nothing, and what is remembered of earlier calls is untouched.
C10_NegativeVerbosityRejected ==
    [][(IsInitLoggingStep /\ last'.verbose < 0)
       => /\ last'.outcome = "AssertionError"
          /\ ~last'.proceeded /\ last'.resets = 0 /\ last'.dictConfigs = 0
          /\ memo' = memo /\ configured' = configured /\ installed' = installed
          /\ emits' = <<>>
          /\ streak' = streak /\ completed' = completed]_vars

\* a call with a negative verbosity was rejected after a configuration
C10_Witness ==
    /\ last.op = "init_logging" /\ last.verbose < 0
    /\ last.outcome = "AssertionError"
    /\ DOMAIN memo # {} /\ configured /\ installed.applied

IsFileDestination(file) == file \notin {"stderr", "stdout", "STDERR", "STDOUT"}

\* the file destinations of a sink list, in the order of the sinks
FileDestinations(logs) ==
    SelectSeq([i \in 1..Len(logs.items) |-> logs.items[i].file], IsFileDestination)

\* C11: an init_logging run that passed the gate never re-enters
\* init_logging through the Logger() call it makes; when its handler setup
\* completed and its sinks name at least one file, it emits exactly one
\* 'Logging to files.' info record, whose logfiles are the file destinations
\* in sink order, through the handlers it has just installed (every handler
\* of level INFO or lower renders it); when its sinks name no file, or its
\* handler setup raised, it emits no record.
C11_OneFileLineAfterSetup ==
    [][(IsInitLoggingStep /\ last'.proceeded)
       => /\ ~last'.reentered
          /\ IF last'.outcome = "ok" /\ FileDestinations(last'.logs) # <<>>
             THEN /\ Len(emits') = 1
                  /\ emits'[1].method = "info"
                  /\ emits'[1].event["event"] = "Logging to files."
                  /\ emits'[1].event["logfiles"] = FileDestinations(last'.logs)
                  /\ installed'.applied
                  /\ installed'.root.handlers = ExpectedRootHandlers(last'.logs)
                  /\ {emits'[1].out[j].handler : j \in 1..Len(emits'[1].out)}
                        = {d \in DOMAIN installed'.handlers :
                              LevelNo(installed'.handlers[d].level) <= LevelNo("INFO")}
             ELSE emits' = <<>>]_vars

\* a run with two file sinks replaced a console-only configuration and logged
\* its record to both files and to the synthetic stderr handler
C11_Witness ==
    /\ last.op = "init_logging" /\ last.outcome = "ok"
    /\ last.wasVerbose >= 0
    /\ Len(emits) = 1
    /\ emits[1].event["logfiles"] = <<"b.log", "app.log">>
    /\ Len(emits[1].out) = 3

\* the sinks a list resolves to under a verbosity, as the documentation of
\* the defaults states them
ExpectedSinks(logs, verbose) ==
    LET base == [i \in 1..Len(logs.items) |->
                    LET log == logs.items[i]
                    IN  [file |-> log.file,
                         format |-> log.format,
                         level |-> IF log.level # None THEN log.level
                                   ELSE IF log.file \in {"stderr", "stdout"}
                                   THEN ExpectedConsoleLevel(verbose)
                                   ELSE ExpectedFileLevel(verbose)]]
    IN  IF HasConsoleSink(logs.items)
        THEN base
        ELSE Append(base, [file |-> "stderr", format |-> "color",
                           level |-> ExpectedConsoleLevel(verbose)])

\* inst is the logging tree a configuration run with these arguments leaves
HandlersBuiltFrom(inst, logs, verbose) ==
    LET sinks == ExpectedSinks(logs, verbose)
    IN  /\ inst.applied
        /\ DOMAIN inst.handlers = {sinks[i].file : i \in 1..Len(sinks)}
        /\ \A i \in 1..Len(sinks) :
              (\A j \in (i + 1)..Len(sinks) : sinks[j].file # sinks[i].file)
              => LET h == inst.handlers[sinks[i].file]
                 IN  /\ h.level = sinks[i].level
                     /\ h.formatter = sinks[i].format
                     /\ IF sinks[i].file \in {"stderr", "stdout"}
                        THEN /\ h.class = "logging.StreamHandler"
                             /\ h.stream = sinks[i].file
                        ELSE /\ h.class = "logging.handlers.WatchedFileHandler"
                             /\ h.filename = sinks[i].file
        /\ inst.root.level = "TRACE"
        /\ inst.root.propagate
        /\ inst.root.handlers = [i \in 1..Len(sinks) |-> sinks[i].file]
        /\ \A i \in 1..Len(inst.root.handlers) :
              inst.root.handlers[i] \in DOMAIN inst.handlers

\* C12: after a configuration run completed, the handler map has one entry
\* per destination of the resolved sinks, built from the last resolved sink
\* with that destination (its level, its format as formatter), a stream
\* handler for stdout/stderr and a watched-file handler otherwise; the root
\* logger has level TRACE, propagates, and lists one handler name per
\* resolved sink in resolution order, each a key of the handler map.
C12_HandlerMapLastWins ==
    (last.proceeded /\ last.outcome = "ok")
        => HandlersBuiltFrom(installed, last.logs, last.verbose)

\* a run at verbosity 0 with two stderr sinks: the map holds the second
C12_Witness ==
    /\ last.op = "init_logging" /\ last.outcome = "ok" /\ last.verbose = 0
    /\ Len(last.logs.items) = 2
    /\ last.logs.items[1].file = "stderr" /\ last.logs.items[2].file = "stderr"
    /\ installed.root.handlers = <<"stderr", "stderr">>
    /\ installed.handlers["stderr"].formatter = "color"
    /\ installed.handlers["stderr"].level = "INFO"

(***************************************************************************)
(* Properties of the handles, checked under SpecBind.                      *)
(***************************************************************************)
RestrictedNames ==
    {"event", "fargs", "function", "lineno", "module", "name", "pid", "thread"}

KwValue(kwargs, k) == kwargs[CHOOSE i \in 1..Len(kwargs) : kwargs[i][1] = k][2]

\* the warnings among the records of the last operation, as their bad keys
RECURSIVE BadKeys(_)
BadKeys(records) ==
    IF records = <<>>
    THEN <<>>
    ELSE LET rest == BadKeys(Tail(records))
             ev == Head(records).event
         IN  IF Head(records).method = "warning"
                /\ ev["event"] = "Restricted key cannot be bound."
             THEN <<ev["bad_key"]>> \o rest
             ELSE rest

Count(seq, x) == Cardinality({i \in 1..Len(seq) : seq[i] = x})

\* C6: a bind call returns a handle whose context is the context of the
\* handle it was made on, extended with the non-restricted keys of the call
\* and with nothing else; that handle's own context is untouched; and one
\* warning is logged for each restricted key of the call, none for the others.
C6_RestrictedKeysRejected ==
    (last.op = "bind" \/ (last.op = "Logger" /\ last.kwargs # <<>>)) =>
        LET given == KwKeys(last.kwargs)
            kept == given \ RestrictedNames
            bad == BadKeys(emits)
        IN  /\ DOMAIN handle = DOMAIN last.self \cup kept
            /\ \A k \in DOMAIN handle :
                  handle[k] = IF k \in kept
                              THEN KwValue(last.kwargs, k)
                              ELSE last.self[k]
            /\ parent = last.self
            /\ \A k \in given :
                  Count(bad, k) = IF k \in RestrictedNames THEN 1 ELSE 0
            /\ Len(bad) = Cardinality(given \cap RestrictedNames)

\* a handle with x and fargs bound was asked to bind pid and a new x
C6_Witness ==
    /\ last.op = "bind"
    /\ last.kwargs = <<<<"pid", 1>>, <<"x", 2>>>>
    /\ DOMAIN last.self = {"fargs", "x"} /\ last.self["x"] = 1
    /\ handle["x"] = 2 /\ "pid" \notin DOMAIN handle
    /\ BadKeys(emits) = <<"pid">>

\* C7: bind_fargs returns a handle whose fargs are the mapping given,
\* overridden by the keyword arguments, with no key of the fargs bound
\* before; every other bound field is as before, and the handle the call was
\* made on keeps its context.
C7_BindFargsReplaces ==
    last.op = "bind_fargs" =>
        LET m == IF last.fargs_map.given THEN last.fargs_map.map ELSE EmptyDict
            kw == KwKeys(last.kwargs)
        IN  /\ DOMAIN handle = DOMAIN last.self \cup {"fargs"}
            /\ DOMAIN handle["fargs"] = DOMAIN m \cup kw
            /\ \A k \in DOMAIN handle["fargs"] :
                  handle["fargs"][k] = IF k \in kw
                                       THEN KwValue(last.kwargs, k)
                                       ELSE m[k]
            /\ \A k \in DOMAIN last.self \ {"fargs"} : handle[k] = last.self[k]
            /\ parent = last.self

\* a handle with x bound and fargs {a: 1} was given the fargs {b: 1} and b=2
\* as a keyword
C7_Witness ==
    /\ last.op = "bind_fargs"
    /\ "fargs" \in DOMAIN last.self /\ "x" \in DOMAIN last.self
    /\ DOMAIN last.self["fargs"] = {"a"}
    /\ last.fargs_map.given /\ DOMAIN last.fargs_map.map = {"b"}
    /\ last.kwargs = <<<<"b", 2>>>>
    /\ DOMAIN handle["fargs"] = {"b"} /\ handle["fargs"]["b"] = 2

(***************************************************************************)
(* init_logging called from two threads. Nothing in init_logging takes a   *)
(* lock, so a thread may be preempted between any two statements; a step   *)
(* below is a stretch of init_logging that touches the shared state        *)
(* (_LOGGING_CONFIGURATION, structlog's configuration, the logging tree)   *)
(* once. logging.config.dictConfig holds logging's module lock while it    *)
(* rebuilds the tree, so it is one step. The sinks drawn name no file, so  *)
(* the test of api.py:426 is false and the call returns after dictConfig.  *)
(***************************************************************************)
ThreadLogs ==
    { PyList(<<Log("stderr", "nocolor", None)>>),
      PyList(<<Log("stdout", "json", None)>>),
      PyList(<<Log("STDERR", "nocolor", None)>>) }

ThreadVerbosities == -1..1

OtherThread(t) == CHOOSE u \in Threads : u # t

\* the thread is inside init_logging
Running(t) == threads[t].pc \notin {"idle", "done"}

ThreadArgs(t) == [logs |-> threads[t].logs, verbose |-> threads[t].verbose]

ThreadReturns(t, outcome) ==
    threads' = [threads EXCEPT ![t].pc = "done", ![t].outcome = outcome]

ThreadGoes(t, pc) == threads' = [threads EXCEPT ![t].pc = pc]

History == <<last, emits, streak, completed, lazyDefault, handle, parent, dflt>>

\* api.py:221-261: the call and the assertion on its verbosity; a call made
\* while the other thread is inside init_logging overlaps it
ThreadCall(t) ==
    /\ ~Running(t)
    /\ \E logs \in ThreadLogs, verbose \in ThreadVerbosities :
          LET u == OtherThread(t)
              call == [pc |-> IF VerboseAssertion(verbose) THEN "gate" ELSE "done",
                       logs |-> logs, verbose |-> verbose,
                       overlapped |-> Running(u),
                       outcome |-> IF VerboseAssertion(verbose)
                                   THEN None ELSE "AssertionError"]
          IN  threads' = [threads EXCEPT
                             ![t] = call,
                             ![u].overlapped = @ \/ (Running(u) /\ call.pc # "done")]
    /\ UNCHANGED <<memo, configured, installed, History>>

\* api.py:263-265
ThreadGate(t) ==
    /\ threads[t].pc = "gate"
    /\ IF IdempotenceGate(memo, ThreadArgs(t), configured)
       THEN ThreadReturns(t, "return")
       ELSE ThreadGoes(t, "update")
    /\ UNCHANGED <<memo, configured, installed, History>>

\* api.py:267
ThreadUpdate(t) ==
    /\ threads[t].pc = "update"
    /\ memo' = DictUpdate(memo, ThreadArgs(t))
    /\ ThreadGoes(t, "reset")
    /\ UNCHANGED <<configured, installed, History>>

\* api.py:268
ThreadReset(t) ==
    /\ threads[t].pc = "reset"
    /\ configured' = FALSE
    /\ ThreadGoes(t, "configure")
    /\ UNCHANGED <<memo, installed, History>>

\* api.py:270-393: the defaults and the chains are locals; structlog.configure
ThreadConfigure(t) ==
    /\ threads[t].pc = "configure"
    /\ configured' = TRUE
    /\ ThreadGoes(t, "dictConfig")
    /\ UNCHANGED <<memo, installed, History>>

\* api.py:395-430
ThreadDictConfig(t) ==
    /\ threads[t].pc = "dictConfig"
    /\ LET resolved == _set_log_defaults(threads[t].logs.items, threads[t].verbose)
           config == BuildConfig(resolved, threads[t].verbose)
       IN  IF LevelsAreSet(resolved) /\ DictConfigSucceeds(config)
           THEN /\ installed' = Installed(config, threads[t].verbose)
                /\ ThreadReturns(t, "ok")
           ELSE /\ installed' = installed
                /\ ThreadReturns(t, "ValueError")
    /\ UNCHANGED <<memo, configured, History>>

NextThreads ==
    \E t \in Threads :
        \/ ThreadCall(t)
        \/ ThreadGate(t)
        \/ ThreadUpdate(t)
        \/ ThreadReset(t)
        \/ ThreadConfigure(t)
        \/ ThreadDictConfig(t)

SpecThreads == Init /\ [][NextThreads]_vars

\* thread t returns from init_logging in this step
Returns(t) == threads[t].pc # "done" /\ threads'[t].pc = "done"

====
